---- MODULE Spec2Model ----
(***************************************************************************)
(* pam-authramp: the account lockout state machine.                        *)
(*                                                                         *)
(* The repository holds two builds of the module, and both are modelled:   *)
(*   "crates" : src/crates/lib/src/{lib.rs,tally.rs}  (TOML tally file)    *)
(*   "src"    : src/src/{lib.rs,tally.rs}             (INI tally file,     *)
(*              countdown option)                                          *)
(* The variable build selects the one a behaviour runs.                    *)
(*                                                                         *)
(* Time is counted in milliseconds.  Every PAM hook invocation is a        *)
(* process of its own; its steps are the system calls it makes on the      *)
(* tally file (exists / read / write) and the iterations of the wait loop. *)
(***************************************************************************)
EXTENDS Integers, Sequences, FiniteSets, TLC

VARIABLES build, cfg, conc, focus, now, ticks, dirExists, file, inv,
          started,      \* the invocations started so far in a concurrent behaviour
          freeFails     \* history: per principal, the AUTHFAIL invocations that completed
                        \* Unlocked since the behaviour started or the record was last
                        \* reset, created by another action, or cleared by AUTHSUCC
                        \* (it stops counting at free_tries + 1)
VARIABLE lastReset      \* history: the administrator's last reset and its result, kept
                        \* until the next invocation has returned

VARIABLE login          \* the PAM stack of the service file, when it drives the module
                        \* (login.on): the step the stack is at, and the failed logins
                        \* completed since the behaviour started or the last successful one

VARIABLE conf           \* the configuration file (authramp.conf) that cfg was loaded from

vars == <<build, cfg, conc, focus, now, ticks, dirExists, file, inv, started, freeFails,
          lastReset, login, conf>>

(***************************************************************************)
(* Bounds of the model                                                     *)
(***************************************************************************)
MaxCount == 2        \* AUTHFAIL is not started on a stored count >= MaxCount
MaxTicks == 1        \* number of clock advances in one behaviour
MaxFree == 1         \* free_tries ranges over 0..MaxFree
MaxArgs == 2         \* module arguments of one invocation (SpecArgs)
MaxStarted == 3      \* invocations started in one concurrent behaviour (conc > 1)
StartTime == 100000000   \* the clock at the start, later than epoch + 24 h
MaxElapsed == 4000   \* ms after which no further invocation starts (SpecLive)

(***************************************************************************)
(* Program constants                                                       *)
(***************************************************************************)
Hours24 == 86400000  \* Duration::hours(24), in ms
SleepMs == 1000      \* sleep(Duration::from_secs(1)), in ms
NoInstant == -1      \* Option::None of an instant
I32Max == 2147483647 \* i32::MAX, failures_count is an i32
RootUid == 0

Procs == {1, 2}
Builds == {"crates", "src"}
Users == {"root", "alice"}          \* principals that resolve to a user
Principals == Users \cup {"ghost"}  \* "ghost" does not resolve (get_user_by_name = None)
Args == {"preauth", "authfail", "authsucc", "other"}   \* module arguments; "other" is no action token
ArgLists == {<<>>} \cup {<<a>> : a \in Args \ {"other"}}  \* the argument lists of the PAM stack
Hooks == {"auth", "account"}

Uid(u) == IF u = "root" THEN RootUid ELSE 1000

(***************************************************************************)
(* Config (crates/common/src/config.rs; countdown is read by src/src/lib.rs)*)
(***************************************************************************)
\* base_delay_seconds = 90000 (25 h) makes get_delay exceed the 24 h cap
Configs ==
    { c \in [free_tries : 0..MaxFree, base_delay_seconds : {30, 90000},
             ramp_multiplier : {50}, even_deny_root : BOOLEAN, countdown : BOOLEAN] :
         c.base_delay_seconds = 90000 => c.free_tries = 0 }

(***************************************************************************)
(* The configuration file and Config::load_file.  The file is missing,     *)
(* not TOML ("unparsable"), TOML without the section ("nosection"), or a   *)
(* section ("table") whose keys are absent or hold a TOML value of some    *)
(* type.  A float is kept in thousandths.                                  *)
(***************************************************************************)
TomlNone == [t |-> "none", v |-> 0]
TomlInt(n) == [t |-> "int", v |-> n]
TomlFloat(milli) == [t |-> "float", v |-> milli]
TomlBool(b) == [t |-> "bool", v |-> IF b THEN 1 ELSE 0]
TomlStr == [t |-> "str", v |-> 0]

ConfTable(f, b, r, e) ==
    [kind |-> "table", free_tries |-> f, base_delay_seconds |-> b,
     ramp_multiplier |-> r, even_deny_root |-> e]
ConfOther(k) ==
    [kind |-> k, free_tries |-> TomlNone, base_delay_seconds |-> TomlNone,
     ramp_multiplier |-> TomlNone, even_deny_root |-> TomlNone]

\* Config::default()
ConfigDefault ==
    [free_tries |-> 6, base_delay_seconds |-> 30, ramp_multiplier |-> 50,
     even_deny_root |-> FALSE]

\* f64 as i32: truncation toward zero
FloatAsI32(milli) == IF milli >= 0 THEN milli \div 1000 ELSE -((-milli) \div 1000)

load_file(c) ==
    IF c.kind # "table" THEN ConfigDefault
    ELSE [free_tries |-> IF c.free_tries.t = "int" THEN c.free_tries.v       \* as_integer
                         ELSE ConfigDefault.free_tries,
          base_delay_seconds |-> IF c.base_delay_seconds.t = "int" THEN c.base_delay_seconds.v
                                 ELSE ConfigDefault.base_delay_seconds,
          ramp_multiplier |-> IF c.ramp_multiplier.t = "float"                \* as_float
                              THEN FloatAsI32(c.ramp_multiplier.v)
                              ELSE ConfigDefault.ramp_multiplier,
          even_deny_root |-> IF c.even_deny_root.t = "bool" THEN c.even_deny_root.v = 1
                             ELSE ConfigDefault.even_deny_root]

\* a configuration file that gives the configuration c
ConfOf(c) ==
    ConfTable(TomlInt(c.free_tries), TomlInt(c.base_delay_seconds),
              TomlFloat(c.ramp_multiplier * 1000), TomlBool(c.even_deny_root))

\* the configuration an invocation works with: the loaded file, and the
\* countdown option that src/src/lib.rs reads
WithCountdown(c, cd) ==
    [free_tries |-> c.free_tries, base_delay_seconds |-> c.base_delay_seconds,
     ramp_multiplier |-> c.ramp_multiplier, even_deny_root |-> c.even_deny_root,
     countdown |-> cd]

(***************************************************************************)
(* The tally file.  A field of the [Fails] table is a value, missing, or   *)
(* present but not of the expected type / not parsable ("bad").            *)
(***************************************************************************)
V(n) == [t |-> "v", v |-> n]
Missing == [t |-> "none", v |-> 0]
Bad == [t |-> "bad", v |-> 0]

Rec(c, i, u) == [kind |-> "rec", count |-> c, instant |-> i, unlock |-> u]
Absent == [kind |-> "absent", count |-> Missing, instant |-> Missing, unlock |-> Missing]
Garbage == [kind |-> "garbage", count |-> Missing, instant |-> Missing, unlock |-> Missing]
NoFails == [kind |-> "nofails", count |-> Missing, instant |-> Missing, unlock |-> Missing]

(***************************************************************************)
(* Tally (tally.rs: struct Tally, Default)                                 *)
(***************************************************************************)
Tally(c, i, u) == [count |-> c, instant |-> i, unlock |-> u]
TallyDefault(t) == Tally(0, t, NoInstant)

(***************************************************************************)
(* get_delay: ramp_multiplier * n * ln(n) + base_delay_seconds with        *)
(* n = failures_count - free_tries, computed in f64 and cast to i64        *)
(* (truncation toward zero; NaN casts to 0).  ln(n) is tabulated in        *)
(* millionths.  The result is in ms.                                       *)
(***************************************************************************)
LnMicro == <<0, 693147, 1098612, 1386294, 1609437, 1791759, 1945910, 2079441,
             2197224, 2302585, 2397895, 2484906, 2564949>>

\* (variant without the logarithm, for comparison)
get_delay_linear(count, c) ==
    IF count - c.free_tries <= 0 THEN 0
    ELSE (c.ramp_multiplier * (count - c.free_tries) + c.base_delay_seconds) * 1000

get_delay(count, c) ==
    LET n == count - c.free_tries
        q == c.ramp_multiplier * n
        aq == IF q < 0 THEN -q ELSE q
        L == LnMicro[n]
        lo == aq * (L % 1000)
        hi == aq * (L \div 1000) + lo \div 1000
        fl == hi \div 1000                          \* floor(|q| * ln(n))
        exact == hi % 1000 = 0 /\ lo % 1000 = 0     \* |q| * ln(n) is whole
        b == c.base_delay_seconds
        secs == IF q >= 0 \/ exact THEN (IF q >= 0 THEN b + fl ELSE b - fl)
                ELSE IF b - fl - 1 >= 0 THEN b - fl - 1
                ELSE b - fl
    IN  IF count <= c.free_tries
        THEN 0      \* ln(n) is NaN or -inf: the sum is NaN, and NaN as i64 is 0
        ELSE secs * 1000

(***************************************************************************)
(* Settings::build: the action of the first recognised argument, AUTHSUCC  *)
(* when there is none.                                                     *)
(***************************************************************************)
action_map(arg) ==
    CASE arg = "preauth"  -> "PREAUTH"
      [] arg = "authsucc" -> "AUTHSUCC"
      [] arg = "authfail" -> "AUTHFAIL"
      [] OTHER            -> "none"

\* args.iter().find_map(...)
RECURSIVE find_map(_)
find_map(args) ==
    IF args = <<>> THEN "none"
    ELSE IF action_map(Head(args)) # "none" THEN action_map(Head(args))
    ELSE find_map(Tail(args))

\* (variant that looks at the first argument only, for comparison)
ActionOfFirst(args) ==
    IF args = <<>> \/ action_map(Head(args)) = "none" THEN "AUTHSUCC"
    ELSE action_map(Head(args))

\* settings.action.get_or_insert(Actions::AUTHSUCC)
ActionOf(args) == IF find_map(args) = "none" THEN "AUTHSUCC" ELSE find_map(args)

(***************************************************************************)
(* load_tally_from_file: the parse of the file content.                    *)
(*   crates (TOML): a field that is missing or of the wrong type takes its *)
(*                  default (0, the epoch, None).                          *)
(*   src (INI):     a field that is present and does not parse is an error;*)
(*                  a missing field takes its default.                     *)
(***************************************************************************)
FieldOr(f, d) == IF f.t = "v" THEN f.v ELSE d

\* settings.tally_dir.join(user.name()): the file of the store that the path
\* names.  An account name is one path segment, so the path names the file
\* kept under that name.
\* (variant in which every principal shares one file, for comparison)
tally_file_shared(store, name) == store["root"]

tally_file(store, name) == store[name]

load_tally_from_file(b, content, readOk) ==
    IF ~readOk \/ content.kind \in {"absent", "garbage", "nofails"}
    THEN [ok |-> FALSE, tally |-> TallyDefault(0)]
    ELSE IF b = "src" /\ "bad" \in {content.count.t, content.instant.t, content.unlock.t}
    THEN [ok |-> FALSE, tally |-> TallyDefault(0)]
    ELSE [ok |-> TRUE,
          tally |-> Tally(FieldOr(content.count, 0),
                          FieldOr(content.instant, 0),
                          FieldOr(content.unlock, NoInstant))]

(***************************************************************************)
(* update_tally_from_section: the new in-memory tally, and the text it     *)
(* writes to the file.                                                     *)
(***************************************************************************)
\* (variant without the cap, for comparison)
NoCapDelay(d) == d

CapDelay(d) == IF d > Hours24 THEN Hours24 ELSE d

\* (variant that does not count the failure, for comparison)
AuthFailTallyNoCount(t, c, tnow) ==
    Tally(t.count, tnow, tnow + CapDelay(get_delay(t.count, c)))

\* (variant that counts a failure twice, for comparison)
AuthFailTallyTwice(t, c, tnow) ==
    Tally(t.count + 2, tnow, tnow + CapDelay(get_delay(t.count + 2, c)))

\* failures_count += 1 on an i32 where overflow is not checked (the release
\* profile): i32::MAX + 1 wraps to i32::MIN
IncI32(n) == IF n = I32Max THEN -I32Max - 1 ELSE n + 1

AuthFailTally(t, c, tnow) ==
    Tally(IncI32(t.count), tnow, tnow + CapDelay(get_delay(IncI32(t.count), c)))

\* (variant that keeps the tally, for comparison)
AuthSuccKeeps(t) == t

AuthSuccTally(t) == Tally(0, t.instant, NoInstant)

\* (variant in which PREAUTH counts like AUTHFAIL, for comparison)
update_tally_preauth_counts(t, action, c, tnow) ==
    IF action = "AUTHSUCC" THEN AuthSuccTally(t) ELSE AuthFailTally(t, c, tnow)

update_tally_from_section(t, action, c, tnow) ==
    CASE action = "PREAUTH"  -> t
      [] action = "AUTHSUCC" -> AuthSuccTally(t)
      [] action = "AUTHFAIL" -> AuthFailTally(t, c, tnow)

\* (variant that writes no unlock_instant with the first failure, for comparison)
TallyTextLockedOnly(t, action) ==
    CASE action = "AUTHSUCC" -> Rec(V(t.count), Missing, Missing)
      [] action = "AUTHFAIL" -> Rec(V(t.count), V(t.instant),
                                    IF t.count > 1 THEN V(t.unlock) ELSE Missing)
      [] OTHER               -> Absent

\* (variant in which AUTHSUCC removes the record, for comparison)
TallyTextRemoves(t, action) ==
    CASE action = "AUTHSUCC" -> Absent
      [] action = "AUTHFAIL" -> Rec(V(t.count), V(t.instant), V(t.unlock))
      [] OTHER               -> Absent

TallyText(t, action) ==
    CASE action = "AUTHSUCC" -> Rec(V(t.count), Missing, Missing)
      [] action = "AUTHFAIL" -> Rec(V(t.count), V(t.instant), V(t.unlock))
      [] OTHER               -> Absent

\* (variant that writes an unlock instant, for comparison)
create_tally_file_locked(t) == Rec(V(t.count), V(t.instant), V(t.instant + Hours24))

create_tally_file(t) == Rec(V(t.count), V(t.instant), Missing)

(***************************************************************************)
(* The hooks' result: the closure's Ok(code) / Err(code) and what          *)
(* sm_authenticate and acct_mgmt return for it.                            *)
(***************************************************************************)
Ok(code) == [ok |-> TRUE, code |-> code]
Err(code) == [ok |-> FALSE, code |-> code]

sm_authenticate(b, r) ==
    IF b = "crates"
    THEN IF r.ok THEN r.code ELSE "PAM_SUCCESS"     \* .unwrap_or(PAM_SUCCESS)
    ELSE r.code                                     \* .unwrap_or_else(|e| e)

acct_mgmt(r) == r.code                              \* pam_try!

HookResult(b, hook, r) == IF hook = "auth" THEN sm_authenticate(b, r) ELSE acct_mgmt(r)

\* How the closure of the hook wraps the code bounce_auth returns.
WrapBounce(b, action, code) ==
    IF b = "crates" THEN Err(code)
    ELSE IF action = "PREAUTH" THEN Ok(code) ELSE Err(code)

(***************************************************************************)
(* pam_message (src/src/lib.rs): send through the conversation; a failed   *)
(* send, or a missing conversation, is logged, and only a failure of that  *)
(* log is an error.  sent = conv.send was called.                          *)
(***************************************************************************)
\* (variant in which a failed send is an error, for comparison)
pam_message_strict(convItem, convOk, logOk) ==
    IF convItem
    THEN [ok |-> convOk, sent |-> 1]
    ELSE [ok |-> logOk, sent |-> 0]

pam_message(convItem, convOk, logOk) ==
    IF convItem
    THEN [ok |-> convOk \/ logOk, sent |-> 1]
    ELSE [ok |-> logOk, sent |-> 0]

(***************************************************************************)
(* The text of the countdown, for a remaining time d in ms (chrono's       *)
(* num_hours, num_minutes, num_seconds truncate).                          *)
(***************************************************************************)
\* t_desc.trim_end_matches('s')
trim_end_matches_s(unit) ==
    CASE unit = "hours"   -> "hour"
      [] unit = "minutes" -> "minute"
      [] unit = "seconds" -> "second"
      [] OTHER            -> unit

\* "{t_val} {t_desc}", singular for 1
Unit(t_val, t_desc) ==
    ToString(t_val) \o " " \o (IF t_val = 1 THEN trim_end_matches_s(t_desc) ELSE t_desc)

\* (variant that never uses the singular, for comparison)
format_remaining_countdown_time_plural(d) ==
    IF d \div 1000 = 0 THEN ".."
    ELSE (IF d \div 3600000 > 0 THEN ToString(d \div 3600000) \o " hours, " ELSE "")
         \o (IF (d \div 60000) % 60 > 0
             THEN ToString((d \div 60000) % 60) \o " minutes and " ELSE "")
         \o ToString((d \div 1000) % 60) \o " seconds"

\* src/src/lib.rs
format_remaining_countdown_time(d) ==
    IF d \div 1000 = 0 THEN ".."
    ELSE (IF d \div 3600000 > 0 THEN Unit(d \div 3600000, "hours") \o ", " ELSE "")
         \o (IF (d \div 60000) % 60 > 0
             THEN Unit((d \div 60000) % 60, "minutes") \o " and " ELSE "")
         \o Unit((d \div 1000) % 60, "seconds")

\* src/crates/lib/src/lib.rs: append_unit writes a unit only when it is > 0,
\* each followed by a blank; the hours unit is given as "hour"
append_unit(value, unit) == IF value > 0 THEN Unit(value, unit) \o " " ELSE ""

format_remaining_time(d) ==
    append_unit(d \div 3600000, "hour")
      \o append_unit((d \div 60000) % 60, "minutes")
      \o append_unit((d \div 1000) % 60, "seconds")

\* the countdown message of one iteration of the wait loop
CountdownMessage(b, d) ==
    "Account locked! Unlocking in "
      \o (IF b = "crates" THEN format_remaining_time(d)
          ELSE format_remaining_countdown_time(d))
      \o "."

(***************************************************************************)
(* bounce_auth up to the wait loop: it returns a code ("ret"), or enters   *)
(* the loop with the unlock instant it enforces ("loop").                  *)
(***************************************************************************)
\* (variant without the exemption, for comparison)
NoRootExempt(uid, c) == FALSE

RootExempt(uid, c) == uid = RootUid /\ ~c.even_deny_root

UnlockInstantOf(t, c) ==
    IF t.unlock # NoInstant THEN t.unlock ELSE t.instant + get_delay(t.count, c)

\* (variant that locks one failure early, for comparison)
IsLockedEarly(t, c) == t.count >= c.free_tries

IsLocked(t, c) == t.count > c.free_tries

BounceRet(code, sent, bounced, at) ==
    [kind |-> "ret", code |-> code, sent |-> sent, bounced |-> bounced, unlockAt |-> at,
     logErr |-> code = "PAM_SYSTEM_ERR"]
BounceLoop(at) ==
    [kind |-> "loop", code |-> "none", sent |-> 0, bounced |-> TRUE, unlockAt |-> at,
     logErr |-> FALSE]

bounce_auth_crates(c, uid, t, convItem) ==
    IF RootExempt(uid, c) THEN BounceRet("PAM_SUCCESS", 0, FALSE, NoInstant)
    ELSE IF IsLocked(t, c) /\ convItem THEN BounceLoop(UnlockInstantOf(t, c))
    ELSE BounceRet("PAM_AUTH_ERR", 0, FALSE, NoInstant)

\* (variant that ignores the countdown option, for comparison)
bounce_auth_src_counts(c, uid, t, convItem, convOk, logOk, log2Ok) ==
    IF RootExempt(uid, c) THEN BounceRet("PAM_SUCCESS", 0, FALSE, NoInstant)
    ELSE IF IsLocked(t, c)
    THEN IF ~logOk THEN BounceRet("PAM_SYSTEM_ERR", 0, TRUE, UnlockInstantOf(t, c))
         ELSE BounceLoop(UnlockInstantOf(t, c))
    ELSE BounceRet("PAM_SUCCESS", 0, FALSE, NoInstant)

bounce_auth_src(c, uid, t, convItem, convOk, logOk, log2Ok) ==
    IF RootExempt(uid, c) THEN BounceRet("PAM_SUCCESS", 0, FALSE, NoInstant)
    ELSE IF IsLocked(t, c)
    THEN LET at == UnlockInstantOf(t, c)
             m == pam_message(convItem, convOk, log2Ok)
         IN  IF ~logOk THEN BounceRet("PAM_SYSTEM_ERR", 0, TRUE, at)
             ELSE IF ~c.countdown
             THEN BounceRet(IF m.ok THEN "PAM_AUTH_ERR" ELSE "PAM_SYSTEM_ERR",
                            m.sent, TRUE, at)
             ELSE BounceLoop(at)
    ELSE BounceRet("PAM_SUCCESS", 0, FALSE, NoInstant)

bounce_auth(b, c, uid, t, convItem, convOk, logOk, log2Ok) ==
    IF b = "crates" THEN bounce_auth_crates(c, uid, t, convItem)
    ELSE bounce_auth_src(c, uid, t, convItem, convOk, logOk, log2Ok)

\* The closure of sm_authenticate: does this action go through bounce_auth?
Bounces(b, action, t, c) ==
    IF b = "crates"
    THEN (action = "PREAUTH" /\ IsLocked(t, c)) \/ action = "AUTHFAIL"
    ELSE action \in {"PREAUTH", "AUTHFAIL"}

\* ... and what it returns when it does not.
ClosureResult(b, action) ==
    IF b = "crates"
    THEN IF action = "PREAUTH" THEN Ok("PAM_SUCCESS") ELSE Err("PAM_AUTH_ERR")
    ELSE Ok("PAM_SUCCESS")

Min(a, b) == IF a < b THEN a ELSE b

NoReset == [user |-> "none", res |-> "none", locked |-> FALSE]

(***************************************************************************)
(* The PAM stack of tests/common/utils.rs create_pam_service_file:         *)
(*   auth    required      authramp preauth                                *)
(*   auth    sufficient    pam_unix                                        *)
(*   auth    [default=die] authramp authfail                               *)
(*   account required      authramp                                        *)
(* A login runs preauth; authfail follows when the password is wrong or    *)
(* preauth has denied; the account hook follows a login that passed.       *)
(***************************************************************************)
NoStack == [on |-> FALSE, step |-> "preauth", failed |-> 0]

StackAllows(l, hook, action) ==
    CASE l.step = "preauth"  -> hook = "auth" /\ action = "PREAUTH"
      [] l.step = "admitted" -> (hook = "auth" /\ action = "AUTHFAIL") \/ hook = "account"
      [] l.step = "denied"   -> hook = "auth" /\ action = "AUTHFAIL"

\* the stack after the invocation rec has returned
StackAfter(l, rec) ==
    IF ~l.on THEN l
    ELSE IF rec.hook = "account" THEN [l EXCEPT !.step = "preauth", !.failed = 0]
    ELSE IF rec.action = "PREAUTH"
         THEN [l EXCEPT !.step = IF rec.res = "PAM_SUCCESS" THEN "admitted" ELSE "denied"]
    ELSE [l EXCEPT !.step = "preauth", !.failed = l.failed + 1]

(***************************************************************************)
(* Invocations                                                             *)
(***************************************************************************)
\* text is the last countdown message the invocation has sent
Idle ==
    [pc |-> "idle", hook |-> "none", user |-> "none", action |-> "none",
     tally |-> TallyDefault(0), pre |-> Absent, res |-> "none",
     loaded |-> FALSE, storeErr |-> FALSE, logErr |-> FALSE, msgs |-> 0, slept |-> FALSE, bounced |-> FALSE,
     convErr |-> FALSE, args |-> <<>>, text |-> "",
     unlockAt |-> NoInstant, wake |-> 0]

NActive == Cardinality({p \in Procs : inv[p].pc # "idle"})

Quiet == \A p \in Procs : inv[p].pc = "idle"

Finished(rec, r) == [rec EXCEPT !.pc = "done", !.res = HookResult(build, rec.hook, r)]

StoreError(rec) == Finished([rec EXCEPT !.storeErr = TRUE], Err("PAM_SYSTEM_ERR"))

Done(p) == inv[p].pc = "done"

\* the invocation took no part of the lockout branch and was not denied
Unlocked(rec) ==
    rec.res = "PAM_SUCCESS" /\ ~rec.bounced /\ rec.msgs = 0 /\ ~rec.slept

StoredCount(u) == IF file[u].count.t = "v" THEN file[u].count.v ELSE 0

TypeOK ==
    /\ build \in Builds
    /\ cfg \in Configs
    /\ now >= StartTime
    /\ ticks \in 0..MaxTicks
    /\ dirExists \in BOOLEAN
    /\ \A u \in Users : file[u].kind \in {"absent", "rec", "garbage", "nofails"}
    /\ \A p \in Procs : inv[p].pc \in
          {"idle", "load", "create", "write", "hook", "loop", "sleep", "done"}
    /\ started \in 0..MaxStarted
    /\ \A u \in Users : freeFails[u] \in 0..(cfg.free_tries + 1)
    /\ \A u \in Users : StoredCount(u) <= MaxCount + 1
    /\ lastReset.res \in {"none", "deleted", "not_found", "error"}

\* What a tally file left by an earlier run, a test set-up, an editor or a
\* restored backup may hold when a behaviour starts.
InitialContents(c) ==
    { Absent, Garbage, NoFails,
      Rec(Bad, V(StartTime), Missing),
      Rec(V(c.free_tries + 1), Bad, V(StartTime + Hours24)),
      Rec(V(c.free_tries + 1), V(StartTime), Bad),
      Rec(V(c.free_tries + 1), V(StartTime), Missing),
      Rec(V(c.free_tries + 1), V(StartTime), V(StartTime + Hours24)),
      Rec(V(0), V(StartTime), V(StartTime + Hours24)) }

InitWith(n, foci) ==
    /\ build \in Builds
    /\ cfg \in Configs
    /\ build = "crates" => cfg.countdown     \* the crates build has no countdown option
    /\ conc = n
    /\ focus \in foci
    /\ "root" \notin focus => ~cfg.even_deny_root   \* even_deny_root is read for uid 0 only
    /\ now = StartTime
    /\ ticks = 0
    /\ file \in [Users -> InitialContents(cfg)]
    /\ \A u \in Users \ focus : file[u] = Absent
    /\ dirExists = (\E u \in Users : file[u] # Absent)
    /\ inv = [p \in Procs |-> Idle]
    /\ started = 0
    /\ freeFails = [u \in Users |-> 0]
    /\ lastReset = NoReset
    /\ login = NoStack
    /\ conf = ConfOf(cfg)

\* One principal, one invocation at a time.
Init == InitWith(1, {{"root"}, {"alice"}})

\* init_authramp up to Tally::new_from_tally_file's test of tally_file.exists()
Invoke(p, hook, args, user, logOk) ==
    /\ inv[p].pc = "idle"
    /\ \A q \in Procs : q < p => inv[q].pc # "idle"
    /\ NActive < conc
    /\ conc > 1 => started < MaxStarted
    /\ hook = "account" => args = <<>>
    /\ login.on => StackAllows(login, hook, ActionOf(args))
    /\ user \in focus \cup {"ghost"}
    /\ (ActionOf(args) = "AUTHFAIL" /\ user \in Users)
       => StoredCount(user) \in 0..(MaxCount - 1) \cup {I32Max}
    /\ LET rec == [Idle EXCEPT !.hook = hook, !.user = user, !.args = args, !.action = ActionOf(args),
                               !.tally = TallyDefault(now)]
       IN  inv' = [inv EXCEPT ![p] =
                IF user \notin Users THEN Finished(rec, Err("PAM_USER_UNKNOWN"))
                ELSE IF build = "crates" /\ ~logOk
                     THEN Finished([rec EXCEPT !.logErr = TRUE], Err("PAM_SYSTEM_ERR"))
                ELSE [rec EXCEPT !.pc = IF dirExists /\ tally_file(file, user).kind # "absent"
                                        THEN "load" ELSE "create",
                                 !.pre = tally_file(file, user)]]
    /\ UNCHANGED <<build, cfg, conc, focus, now, ticks, dirExists, file, freeFails, lastReset, login, conf>>
    /\ started' = IF conc > 1 THEN started + 1 ELSE started

\* load_tally_from_file: read, parse, and the in-memory part of update_tally_from_section
Load(p, readOk) ==
    /\ inv[p].pc = "load"
    /\ inv[p].action = "AUTHFAIL"                                          \* bound of the model
       => StoredCount(inv[p].user) <= MaxCount \/ StoredCount(inv[p].user) = I32Max
    /\ LET rec == inv[p]
           r == load_tally_from_file(build, tally_file(file, rec.user), readOk)
       IN  inv' = [inv EXCEPT ![p] =
                IF ~r.ok THEN StoreError(rec)
                ELSE [rec EXCEPT !.pre = tally_file(file, rec.user),
                                 !.tally = update_tally_from_section(r.tally, rec.action, cfg, now),
                                 !.loaded = (rec.action = "PREAUTH"),
                                 !.pc = IF rec.action = "PREAUTH" THEN "hook" ELSE "write"]]
    /\ UNCHANGED <<build, cfg, conc, focus, now, ticks, dirExists, file, freeFails, started, lastReset, login, conf>>

\* update_tally_from_section: the write of the file
Write(p, writeOk) ==
    /\ inv[p].pc = "write"
    /\ LET rec == inv[p]
       IN  IF writeOk
           THEN /\ file' = [file EXCEPT ![rec.user] = TallyText(rec.tally, rec.action)]
                /\ inv' = [inv EXCEPT ![p].pc = "hook", ![p].loaded = TRUE]
                /\ freeFails' = IF rec.action = "AUTHSUCC"
                                THEN [freeFails EXCEPT ![rec.user] = 0] ELSE freeFails
           ELSE /\ file' = file
                /\ inv' = [inv EXCEPT ![p] = StoreError(rec)]
                /\ freeFails' = freeFails
    /\ UNCHANGED <<build, cfg, conc, focus, now, ticks, dirExists, started, lastReset, login, conf>>

\* create_tally_file: create_dir_all, then the write of the zero record
Create(p, mkdirOk, writeOk) ==
    /\ inv[p].pc = "create"
    /\ LET rec == inv[p]
       IN  IF mkdirOk /\ writeOk
           THEN /\ file' = [file EXCEPT ![rec.user] = create_tally_file(rec.tally)]
                /\ dirExists' = TRUE
                /\ inv' = [inv EXCEPT ![p].pc = "hook", ![p].loaded = TRUE]
                /\ freeFails' = IF rec.action # "AUTHFAIL"
                                THEN [freeFails EXCEPT ![rec.user] = 0] ELSE freeFails
           ELSE /\ file' = file
                /\ dirExists' = (dirExists \/ mkdirOk)
                /\ inv' = [inv EXCEPT ![p] = StoreError(rec)]
                /\ freeFails' = freeFails
    /\ UNCHANGED <<build, cfg, conc, focus, now, ticks, started, lastReset, login, conf>>

\* the closure of the hook, and bounce_auth up to its wait loop
Hook(p, convItem, convOk, logOk, log2Ok) ==
    /\ inv[p].pc = "hook"
    /\ LET rec == inv[p]
           b == bounce_auth(build, cfg, Uid(rec.user), rec.tally,
                            convItem, convOk, logOk, log2Ok)
           seen == [rec EXCEPT !.msgs = b.sent, !.bounced = b.bounced,
                               !.unlockAt = b.unlockAt, !.logErr = b.logErr]
       IN  inv' = [inv EXCEPT ![p] =
                IF rec.hook = "account" THEN Finished(rec, Ok("PAM_SUCCESS"))
                ELSE IF ~Bounces(build, rec.action, rec.tally, cfg)
                     THEN Finished(rec, ClosureResult(build, rec.action))
                ELSE IF b.kind = "ret"
                     THEN Finished(seen, WrapBounce(build, rec.action, b.code))
                ELSE [seen EXCEPT !.pc = "loop"]]
    /\ freeFails' = IF inv[p].action = "AUTHFAIL" /\ Done(p)' /\ Unlocked(inv'[p])
                    THEN [freeFails EXCEPT ![inv[p].user] = Min(@ + 1, cfg.free_tries + 1)]
                    ELSE freeFails
    /\ UNCHANGED <<build, cfg, conc, focus, now, ticks, dirExists, file, started, lastReset, login, conf>>

\* one test of the wait loop's condition, and the body up to sleep
Loop(p, convItem, convOk, logOk) ==
    /\ inv[p].pc = "loop"
    /\ LET rec == inv[p]
           capped == Min(rec.unlockAt - now, Hours24)
           speak == build = "crates" \/ (capped \div 1000) % 2 = 0
           m == IF build = "crates" THEN [ok |-> TRUE, sent |-> 1]
                ELSE pam_message(convItem, convOk, logOk)
           \* conv.send was called and returned an error
           failed == ~convOk /\ (build = "crates" \/ convItem)
           said == [rec EXCEPT !.msgs = Min(2, rec.msgs + m.sent),
                               !.convErr = rec.convErr \/ failed,
                               !.text = IF m.sent = 1 THEN CountdownMessage(build, capped)
                                        ELSE rec.text]
       IN  inv' = [inv EXCEPT ![p] =
                IF ~(now < rec.unlockAt)
                THEN Finished(rec, WrapBounce(build, rec.action, "PAM_SUCCESS"))
                ELSE IF ~speak
                     THEN [rec EXCEPT !.pc = "sleep", !.wake = now + SleepMs, !.slept = TRUE]
                ELSE IF ~m.ok
                     THEN Finished([said EXCEPT !.logErr = ~logOk],
                                   WrapBounce(build, rec.action, "PAM_SYSTEM_ERR"))
                ELSE [said EXCEPT !.pc = "sleep", !.wake = now + SleepMs, !.slept = TRUE]]
    /\ UNCHANGED <<build, cfg, conc, focus, now, ticks, dirExists, file, freeFails, started, lastReset, login, conf>>

\* sleep(1 s) returns
Wake(p) ==
    /\ inv[p].pc = "sleep"
    /\ now >= inv[p].wake
    /\ inv' = [inv EXCEPT ![p].pc = "loop"]
    /\ UNCHANGED <<build, cfg, conc, focus, now, ticks, dirExists, file, freeFails, started, lastReset, login, conf>>

\* the hook has returned to PAM; the process is gone
Return(p) ==
    /\ inv[p].pc = "done"
    /\ inv' = [inv EXCEPT ![p] = Idle]
    /\ lastReset' = NoReset
    /\ login' = StackAfter(login, inv[p])
    /\ UNCHANGED <<build, cfg, conc, focus, now, ticks, dirExists, file, freeFails, started, conf>>

(***************************************************************************)
(* The environment: the clock, the administrator's reset, other writers    *)
(***************************************************************************)
KnownInstants ==
    {file[u].unlock.v : u \in {x \in Users : file[x].unlock.t = "v"}}
      \cup {inv[p].unlockAt : p \in Procs}

\* the clock reaches t
Advance(t) ==
    /\ ticks < MaxTicks
    /\ \A p \in Procs : inv[p].pc # "done"
    /\ t > now
    /\ now' = t
    /\ ticks' = ticks + 1
    /\ UNCHANGED <<build, cfg, conc, focus, dirExists, file, inv, freeFails, started, lastReset, login, conf>>

\* the instants at which a sleeping process is due
Wakes == {inv[p].wake : p \in {q \in Procs : inv[q].pc = "sleep"}}

Tick == \E t \in {now + 1, now + SleepMs} \cup KnownInstants : Advance(t)

\* Invocations run one after the other when conc = 1: then the environment
\* touches the files between invocations only.
EnvMayAct == conc > 1 \/ Quiet

\* (variant that empties the file instead of removing it, for comparison)
delete_tally_truncate(content, rmOk) ==
    IF content.kind = "absent" THEN [file |-> content, res |-> "not_found"]
    ELSE IF rmOk THEN [file |-> Garbage, res |-> "deleted"]
    ELSE [file |-> content, res |-> "error"]

\* cmd/reset.rs delete_tally: fs::remove_file and the result for its outcome
\* (Success = deleted, Info = not_found, Error)
delete_tally(content, rmOk) ==
    IF content.kind = "absent" THEN [file |-> content, res |-> "not_found"]
    ELSE IF rmOk THEN [file |-> Absent, res |-> "deleted"]
    ELSE [file |-> content, res |-> "error"]

\* cmd/reset.rs user
Reset(u, rmOk) ==
    /\ EnvMayAct
    /\ u \in focus
    /\ LET d == delete_tally(file[u], rmOk)
       IN  /\ file' = [file EXCEPT ![u] = d.file]
           /\ freeFails' = IF d.res = "deleted" THEN [freeFails EXCEPT ![u] = 0] ELSE freeFails
           /\ lastReset' = [user |-> u, res |-> d.res,
                            locked |-> StoredCount(u) > cfg.free_tries]
    /\ UNCHANGED <<build, cfg, conc, focus, now, ticks, dirExists, inv, started, login, conf>>

Next ==
    \/ \E p \in Procs, h \in Hooks, a \in ArgLists, u \in Principals, l \in BOOLEAN :
          Invoke(p, h, a, u, l)
    \/ \E p \in Procs, r \in BOOLEAN : Load(p, r)
    \/ \E p \in Procs, w \in BOOLEAN : Write(p, w)
    \/ \E p \in Procs, m \in BOOLEAN, w \in BOOLEAN : Create(p, m, w)
    \/ \E p \in Procs, ci \in BOOLEAN, co \in BOOLEAN, l \in BOOLEAN, l2 \in BOOLEAN :
          Hook(p, ci, co, l, l2)
    \/ \E p \in Procs, ci \in BOOLEAN, co \in BOOLEAN, l \in BOOLEAN : Loop(p, ci, co, l)
    \/ \E p \in Procs : Wake(p)
    \/ \E p \in Procs : Return(p)
    \/ Tick

Spec == Init /\ [][Next]_vars

(***************************************************************************)
(* The module and the administrator's reset command on one principal.      *)
(***************************************************************************)
ResetInit == InitWith(1, {{"alice"}})

NextReset ==
    \/ Next
    \/ \E u \in Users, r \in BOOLEAN : Reset(u, r)

SpecReset == ResetInit /\ [][NextReset]_vars

(***************************************************************************)
(* Two invocations for one principal at a time, racing on its tally file.  *)
(* Every system call succeeds here, the principal is not root, and nobody  *)
(* resets the record: what is left is the interleaving of the reads and    *)
(* writes of the two processes and the clock.                              *)
(***************************************************************************)
\* The record is absent, as create_tally_file leaves it, or as AUTHFAIL
\* leaves it after the first failure.
ConcInit ==
    /\ build \in Builds
    /\ cfg \in Configs
    /\ build = "crates" => cfg.countdown
    /\ cfg.free_tries = 0 /\ cfg.base_delay_seconds = 30 /\ ~cfg.even_deny_root
    /\ conc = 2
    /\ focus = {"alice"}
    /\ now = StartTime
    /\ ticks = 0
    /\ \E r \in {Absent, create_tally_file(TallyDefault(StartTime)),
                  TallyText(AuthFailTally(TallyDefault(StartTime), cfg, StartTime), "AUTHFAIL")} :
          file = [u \in Users |-> IF u = "alice" THEN r ELSE Absent]
    /\ dirExists = (file["alice"] # Absent)
    /\ inv = [p \in Procs |-> Idle]
    /\ started = 0
    /\ freeFails = [u \in Users |-> 0]
    /\ lastReset = NoReset
    /\ login = NoStack
    /\ conf = ConfOf(cfg)

NextConc ==
    \/ \E p \in Procs, a \in Args \ {"other"} : Invoke(p, "auth", <<a>>, "alice", TRUE)
    \/ \E p \in Procs : Load(p, TRUE)
    \/ \E p \in Procs : Write(p, TRUE)
    \/ \E p \in Procs : Create(p, TRUE, TRUE)
    \/ \E p \in Procs, ci \in BOOLEAN : Hook(p, ci, TRUE, TRUE, TRUE)
    \/ \E p \in Procs, ci \in BOOLEAN : Loop(p, ci, ci, TRUE)
    \/ \E p \in Procs : Wake(p)
    \/ \E p \in Procs : Return(p)
    \/ \E t \in KnownInstants \cup Wakes : Advance(t)   \* the clock moves from event to event

SpecConc == ConcInit /\ [][NextConc]_vars

(***************************************************************************)
(* One principal, one invocation at a time, under every sign of            *)
(* ramp_multiplier (Config takes any i32) and base_delay_seconds >= 0.     *)
(* Every system call succeeds here.                                        *)
(***************************************************************************)
RampConfigs ==
    [free_tries : 0..MaxFree, base_delay_seconds : {0, 30}, ramp_multiplier : {-50, 0, 50},
     even_deny_root : {FALSE}, countdown : BOOLEAN]

RampInit ==
    /\ build \in Builds
    /\ cfg \in RampConfigs
    /\ build = "crates" => cfg.countdown
    /\ conc = 1
    /\ focus = {"alice"}
    /\ now = StartTime
    /\ ticks = 0
    /\ \E r \in {Absent} \cup {Rec(V(c), V(StartTime), Missing) : c \in 0..MaxCount} :
          file = [u \in Users |-> IF u = "alice" THEN r ELSE Absent]
    /\ dirExists = (file["alice"] # Absent)
    /\ inv = [p \in Procs |-> Idle]
    /\ started = 0
    /\ freeFails = [u \in Users |-> 0]
    /\ lastReset = NoReset
    /\ login = NoStack
    /\ conf = ConfOf(cfg)

NextRamp ==
    \/ \E p \in Procs, a \in Args \ {"other"} : Invoke(p, "auth", <<a>>, "alice", TRUE)
    \/ \E p \in Procs : Load(p, TRUE)
    \/ \E p \in Procs : Write(p, TRUE)
    \/ \E p \in Procs : Create(p, TRUE, TRUE)
    \/ \E p \in Procs, ci \in BOOLEAN : Hook(p, ci, TRUE, TRUE, TRUE)
    \/ \E p \in Procs, ci \in BOOLEAN : Loop(p, ci, ci, TRUE)
    \/ \E p \in Procs : Wake(p)
    \/ \E p \in Procs : Return(p)
    \/ Tick

SpecRamp == RampInit /\ [][NextRamp]_vars

(***************************************************************************)
(* One principal, one invocation at a time, under every content of the     *)
(* configuration file; the administrator edits the file between            *)
(* invocations.  Every other system call succeeds here.                    *)
(***************************************************************************)
ConfFiles ==
    {ConfOther("missing"), ConfOther("unparsable"), ConfOther("nosection")}
      \cup {ConfTable(f, b, r, e) :
               f \in {TomlNone, TomlInt(1), TomlStr},
               b \in {TomlNone, TomlInt(15)},
               r \in {TomlNone, TomlInt(20), TomlFloat(20700), TomlStr},
               e \in {TomlNone, TomlBool(TRUE)}}

ConfInit ==
    /\ build \in Builds
    /\ conf \in ConfFiles
    /\ cfg = WithCountdown(load_file(conf), TRUE)
    /\ conc = 1
    /\ focus = {"alice"}
    /\ now = StartTime
    /\ ticks = 0
    /\ file = [u \in Users |-> Absent]
    /\ dirExists = FALSE
    /\ inv = [p \in Procs |-> Idle]
    /\ started = 0
    /\ freeFails = [u \in Users |-> 0]
    /\ lastReset = NoReset
    /\ login = NoStack

\* the administrator rewrites the configuration file; the next invocation loads it
EditConf(c) ==
    /\ Quiet
    /\ conf' = c
    /\ cfg' = WithCountdown(load_file(c), cfg.countdown)
    /\ UNCHANGED <<build, conc, focus, now, ticks, dirExists, file, inv, started, freeFails,
                   lastReset, login>>

NextConf ==
    \/ \E c \in ConfFiles : EditConf(c)
    \/ \E p \in Procs, a \in ArgLists : Invoke(p, "auth", a, "alice", TRUE)
    \/ \E p \in Procs : Load(p, TRUE)
    \/ \E p \in Procs : Write(p, TRUE)
    \/ \E p \in Procs : Create(p, TRUE, TRUE)
    \/ \E p \in Procs, ci \in BOOLEAN : Hook(p, ci, TRUE, TRUE, TRUE)
    \/ \E p \in Procs, ci \in BOOLEAN : Loop(p, ci, ci, TRUE)
    \/ \E p \in Procs : Wake(p)
    \/ \E p \in Procs : Return(p)
    \/ Tick

SpecConf == ConfInit /\ [][NextConf]_vars

(***************************************************************************)
(* Sequential logins of one principal through the PAM stack, starting      *)
(* without a record.  Every system call succeeds here.                     *)
(***************************************************************************)
StackInit ==
    /\ build \in Builds
    /\ cfg \in {c \in Configs : ~c.even_deny_root}
    /\ build = "crates" => cfg.countdown
    /\ conc = 1
    /\ focus = {"alice"}
    /\ now = StartTime
    /\ ticks = 0
    /\ file = [u \in Users |-> Absent]
    /\ dirExists \in BOOLEAN
    /\ inv = [p \in Procs |-> Idle]
    /\ started = 0
    /\ freeFails = [u \in Users |-> 0]
    /\ lastReset = NoReset
    /\ login = [NoStack EXCEPT !.on = TRUE]
    /\ conf = ConfOf(cfg)

NextStack ==
    \/ \E p \in Procs, h \in Hooks, a \in ArgLists : Invoke(p, h, a, "alice", TRUE)
    \/ \E p \in Procs : Load(p, TRUE)
    \/ \E p \in Procs : Write(p, TRUE)
    \/ \E p \in Procs : Create(p, TRUE, TRUE)
    \/ \E p \in Procs, ci \in BOOLEAN : Hook(p, ci, TRUE, TRUE, TRUE)
    \/ \E p \in Procs, ci \in BOOLEAN : Loop(p, ci, ci, TRUE)
    \/ \E p \in Procs : Wake(p)
    \/ \E p \in Procs : Return(p)
    \/ Tick

SpecStack == StackInit /\ [][NextStack]_vars

(***************************************************************************)
(* One principal, one invocation at a time, under every argument list of   *)
(* up to MaxArgs module arguments.  Every system call succeeds here.       *)
(***************************************************************************)
ArgLists2 == UNION {[1..n -> Args] : n \in 0..MaxArgs}

ArgsInit ==
    /\ build \in Builds
    /\ cfg \in {c \in Configs : c.base_delay_seconds = 30 /\ ~c.even_deny_root /\ c.countdown}
    /\ conc = 1
    /\ focus = {"alice"}
    /\ now = StartTime
    /\ ticks = 0
    /\ \E r \in {Absent, TallyText(AuthFailTally(TallyDefault(StartTime), cfg, StartTime), "AUTHFAIL")} :
          file = [u \in Users |-> IF u = "alice" THEN r ELSE Absent]
    /\ dirExists = (file["alice"] # Absent)
    /\ inv = [p \in Procs |-> Idle]
    /\ started = 0
    /\ freeFails = [u \in Users |-> 0]
    /\ lastReset = NoReset
    /\ login = NoStack
    /\ conf = ConfOf(cfg)

NextArgs ==
    \/ \E p \in Procs, a \in ArgLists2 : Invoke(p, "auth", a, "alice", TRUE)
    \/ \E p \in Procs : Load(p, TRUE)
    \/ \E p \in Procs : Write(p, TRUE)
    \/ \E p \in Procs : Create(p, TRUE, TRUE)
    \/ \E p \in Procs, ci \in BOOLEAN : Hook(p, ci, TRUE, TRUE, TRUE)
    \/ \E p \in Procs, ci \in BOOLEAN : Loop(p, ci, ci, TRUE)
    \/ \E p \in Procs : Wake(p)
    \/ \E p \in Procs : Return(p)
    \/ Tick

SpecArgs == ArgsInit /\ [][NextArgs]_vars

(***************************************************************************)
(* Termination.  One principal, one invocation at a time, every system     *)
(* call and the conversation may fail, and the clock is not bounded: it    *)
(* moves to the next instant a waiting invocation is due at.  The delays   *)
(* are a few seconds, so that a whole wait is a handful of iterations; no  *)
(* invocation starts later than MaxElapsed after the start.                *)
(* Fairness: a process that can take its next step takes it (the hook is   *)
(* sequential code and sleep returns once its second has passed), and the  *)
(* clock keeps advancing.                                                  *)
(***************************************************************************)
LiveConfigs ==
    [free_tries : 0..MaxFree, base_delay_seconds : {2}, ramp_multiplier : {1},
     even_deny_root : {FALSE}, countdown : BOOLEAN]

LiveInit ==
    /\ build \in Builds
    /\ cfg \in LiveConfigs
    /\ build = "crates" => cfg.countdown
    /\ conc = 1
    /\ focus = {"alice"}
    /\ now = StartTime
    /\ ticks = 0
    /\ \E r \in {Absent, create_tally_file(TallyDefault(StartTime)),
                  TallyText(AuthFailTally(TallyDefault(StartTime), cfg, StartTime), "AUTHFAIL")} :
          file = [u \in Users |-> IF u = "alice" THEN r ELSE Absent]
    /\ dirExists = (file["alice"] # Absent)
    /\ inv = [p \in Procs |-> Idle]
    /\ started = 0
    /\ freeFails = [u \in Users |-> 0]
    /\ lastReset = NoReset
    /\ login = NoStack
    /\ conf = ConfOf(cfg)

\* the instants a process in the wait loop is due at
Dues == {inv[p].unlockAt : p \in {q \in Procs : inv[q].pc \in {"loop", "sleep"}}} \cup Wakes

\* the clock reaches the next due instant t
Elapse(t) ==
    /\ t > now
    /\ now' = t
    /\ UNCHANGED <<build, cfg, conc, focus, ticks, dirExists, file, inv, freeFails, started, lastReset, login, conf>>

\* the next step of process p, whatever the system calls and the conversation do
Step(p) ==
    \/ \E r \in BOOLEAN : Load(p, r)
    \/ \E w \in BOOLEAN : Write(p, w)
    \/ \E m \in BOOLEAN, w \in BOOLEAN : Create(p, m, w)
    \/ \E ci \in BOOLEAN, co \in BOOLEAN, l \in BOOLEAN, l2 \in BOOLEAN : Hook(p, ci, co, l, l2)
    \/ \E ci \in BOOLEAN, co \in BOOLEAN, l \in BOOLEAN : Loop(p, ci, co, l)
    \/ Wake(p)

NextLive ==
    \/ \E p \in Procs, a \in Args \ {"other"}, l \in BOOLEAN :
          now - StartTime < MaxElapsed /\ Invoke(p, "auth", <<a>>, "alice", l)
    \/ \E p \in Procs : Step(p)
    \/ \E p \in Procs : Return(p)
    \/ \E t \in Dues : Elapse(t)

SpecLive ==
    /\ LiveInit
    /\ [][NextLive]_vars
    /\ \A p \in Procs : WF_vars(Step(p))
    /\ WF_vars(\E t \in Dues : Elapse(t))

(***************************************************************************)
(* Two invocations at a time for one principal whose record exists, with   *)
(* PREAUTH and AUTHFAIL only: no AUTHSUCC, no reset, and no creation, as   *)
(* the file is there throughout.  Every system call succeeds.              *)
(***************************************************************************)
FailInit ==
    /\ ConcInit
    /\ file["alice"] # Absent

NextFail ==
    \/ \E p \in Procs, a \in {"preauth", "authfail"} : Invoke(p, "auth", <<a>>, "alice", TRUE)
    \/ \E p \in Procs : Load(p, TRUE)
    \/ \E p \in Procs : Write(p, TRUE)
    \/ \E p \in Procs, ci \in BOOLEAN : Hook(p, ci, TRUE, TRUE, TRUE)
    \/ \E p \in Procs, ci \in BOOLEAN : Loop(p, ci, ci, TRUE)
    \/ \E p \in Procs : Wake(p)
    \/ \E p \in Procs : Return(p)
    \/ \E t \in KnownInstants \cup Wakes : Advance(t)

SpecFail == FailInit /\ [][NextFail]_vars

(***************************************************************************)
(* Two principals.  Invocations for root and for alice follow one another  *)
(* and the administrator resets either of them in between, while both may  *)
(* have a record.  Principal names are account names: each is one path     *)
(* segment under tally_dir.  Every system call of the module succeeds.     *)
(***************************************************************************)
IsoInit ==
    /\ build \in Builds
    /\ cfg \in Configs
    /\ cfg.countdown
    /\ cfg.free_tries = 0 /\ cfg.base_delay_seconds = 30 /\ ~cfg.even_deny_root
    /\ conc = 1
    /\ focus = Users
    /\ now = StartTime
    /\ ticks = 0
    /\ file \in [Users -> {Absent,
                           TallyText(AuthFailTally(TallyDefault(StartTime), cfg, StartTime),
                                     "AUTHFAIL")}]
    /\ dirExists = (\E u \in Users : file[u] # Absent)
    /\ inv = [p \in Procs |-> Idle]
    /\ started = 0
    /\ freeFails = [u \in Users |-> 0]
    /\ lastReset = NoReset
    /\ login = NoStack
    /\ conf = ConfOf(cfg)

NextIso ==
    \/ \E p \in Procs, a \in Args \ {"other"}, u \in Users : Invoke(p, "auth", <<a>>, u, TRUE)
    \/ \E p \in Procs : Load(p, TRUE)
    \/ \E p \in Procs : Write(p, TRUE)
    \/ \E p \in Procs : Create(p, TRUE, TRUE)
    \/ \E p \in Procs, ci \in BOOLEAN : Hook(p, ci, TRUE, TRUE, TRUE)
    \/ \E p \in Procs, ci \in BOOLEAN : Loop(p, ci, ci, TRUE)
    \/ \E p \in Procs : Wake(p)
    \/ \E p \in Procs : Return(p)
    \/ Tick
    \/ \E u \in Users, r \in BOOLEAN : Reset(u, r)

SpecIso == IsoInit /\ [][NextIso]_vars

(***************************************************************************)
(* The width of failures_count.  One principal, one invocation at a time,  *)
(* every system call succeeds; the record holds a small count or the       *)
(* largest i32.  `failures_count += 1` on i32::MAX wraps where overflow is *)
(* not checked (Load) and panics where it is checked (Panic): the build    *)
(* decides which.                                                          *)
(***************************************************************************)
WideInit ==
    /\ build \in Builds
    /\ cfg \in Configs
    /\ build = "crates" => cfg.countdown
    /\ cfg.base_delay_seconds = 30 /\ ~cfg.even_deny_root
    /\ conc = 1
    /\ focus = {"alice"}
    /\ now = StartTime
    /\ ticks = 0
    /\ \E r \in {Absent} \cup {Rec(V(c), V(StartTime), V(StartTime + Hours24)) : c \in {1, I32Max}} :
          file = [u \in Users |-> IF u = "alice" THEN r ELSE Absent]
    /\ dirExists = (file["alice"] # Absent)
    /\ inv = [p \in Procs |-> Idle]
    /\ started = 0
    /\ freeFails = [u \in Users |-> 0]
    /\ lastReset = NoReset
    /\ login = NoStack
    /\ conf = ConfOf(cfg)

\* `failures_count += 1` with overflow checks: the thread panics ("attempt to
\* add with overflow") before anything is written, and the hook returns no
\* result
Panic(p) ==
    /\ inv[p].pc = "load"
    /\ inv[p].action = "AUTHFAIL"
    /\ load_tally_from_file(build, tally_file(file, inv[p].user), TRUE).tally.count = I32Max
    /\ inv' = [inv EXCEPT ![p].pc = "done", ![p].res = "panic"]
    /\ UNCHANGED <<build, cfg, conc, focus, now, ticks, dirExists, file, freeFails, started, lastReset, login, conf>>

NextWide ==
    \/ \E p \in Procs, a \in Args \ {"other"} : Invoke(p, "auth", <<a>>, "alice", TRUE)
    \/ \E p \in Procs : Load(p, TRUE)
    \/ \E p \in Procs : Panic(p)
    \/ \E p \in Procs : Write(p, TRUE)
    \/ \E p \in Procs : Create(p, TRUE, TRUE)
    \/ \E p \in Procs, ci \in BOOLEAN : Hook(p, ci, TRUE, TRUE, TRUE)
    \/ \E p \in Procs, ci \in BOOLEAN : Loop(p, ci, ci, TRUE)
    \/ \E p \in Procs : Wake(p)
    \/ \E p \in Procs : Return(p)
    \/ Tick

SpecWide == WideInit /\ [][NextWide]_vars

(***************************************************************************)
(* The countdown text.  The build of src/src, countdown enabled, one       *)
(* principal whose record is locked for a remaining time between half a    *)
(* second and 24 hours; the invocations wait and send the countdown.       *)
(***************************************************************************)
Hms(h, m, sec) == (h * 3600 + m * 60 + sec) * 1000

Remainings ==
    {500, Hms(0, 0, 1), Hms(0, 0, 2), Hms(0, 0, 35) + 500, Hms(0, 1, 0), Hms(0, 1, 1),
     Hms(0, 2, 0), Hms(1, 0, 0), Hms(1, 1, 0), Hms(1, 0, 1), Hms(2, 24, 5), Hms(2, 24, 6),
     Hms(23, 59, 59), Hours24}

FormatInit ==
    /\ build = "src"
    /\ cfg \in Configs
    /\ cfg.countdown /\ cfg.free_tries = 0 /\ cfg.base_delay_seconds = 30 /\ ~cfg.even_deny_root
    /\ conc = 1
    /\ focus = {"alice"}
    /\ now = StartTime
    /\ ticks = 0
    /\ \E r \in {Absent} \cup {Rec(V(1), V(StartTime), V(StartTime + d)) : d \in Remainings} :
          file = [u \in Users |-> IF u = "alice" THEN r ELSE Absent]
    /\ dirExists = (file["alice"] # Absent)
    /\ inv = [p \in Procs |-> Idle]
    /\ started = 0
    /\ freeFails = [u \in Users |-> 0]
    /\ lastReset = NoReset
    /\ login = NoStack
    /\ conf = ConfOf(cfg)

NextFormat ==
    \/ \E p \in Procs, a \in Args \ {"other"} : Invoke(p, "auth", <<a>>, "alice", TRUE)
    \/ \E p \in Procs : Load(p, TRUE)
    \/ \E p \in Procs : Write(p, TRUE)
    \/ \E p \in Procs : Create(p, TRUE, TRUE)
    \/ \E p \in Procs, ci \in BOOLEAN : Hook(p, ci, TRUE, TRUE, TRUE)
    \/ \E p \in Procs, ci \in BOOLEAN : Loop(p, ci, ci, TRUE)
    \/ \E p \in Procs : Wake(p)
    \/ \E p \in Procs : Return(p)
    \/ Tick

SpecFormat == FormatInit /\ [][NextFormat]_vars

(***************************************************************************)
(* The logins of tests/test-pam-auth.rs: the PAM stack of the test service *)
(* with a conversation that is there and takes every message (the test's   *)
(* conversation keeps a log of them).  Every system call succeeds.         *)
(***************************************************************************)
NextTalk ==
    \/ \E p \in Procs, h \in Hooks, a \in ArgLists : Invoke(p, h, a, "alice", TRUE)
    \/ \E p \in Procs : Load(p, TRUE)
    \/ \E p \in Procs : Write(p, TRUE)
    \/ \E p \in Procs : Create(p, TRUE, TRUE)
    \/ \E p \in Procs : Hook(p, TRUE, TRUE, TRUE, TRUE)
    \/ \E p \in Procs : Loop(p, TRUE, TRUE, TRUE)
    \/ \E p \in Procs : Wake(p)
    \/ \E p \in Procs : Return(p)
    \/ Tick

SpecTalk == StackInit /\ [][NextTalk]_vars

(***************************************************************************)
(* Properties                                                              *)
(***************************************************************************)
\* the failure count the invocation found: 0 when there was no record
PreCount(rec) == IF rec.pre.kind = "rec" THEN FieldOr(rec.pre.count, 0) ELSE 0

\* C1: fail-closed.  An invocation in which loading, creating or persisting
\* the tally record failed does not return PAM_SUCCESS.
C1_FailClosed ==
    \A p \in Procs : (Done(p) /\ inv[p].storeErr) => inv[p].res # "PAM_SUCCESS"

\* C2: lock enforcement.  For a principal that is not exempt root, a PREAUTH
\* invocation of sm_authenticate that loaded the tally returns PAM_SUCCESS
\* only if the count is <= free_tries or the unlock instant has been reached.
C2_LockEnforced ==
    \A p \in Procs :
        (/\ Done(p) /\ inv[p].hook = "auth" /\ inv[p].action = "PREAUTH"
         /\ inv[p].loaded
         /\ ~RootExempt(Uid(inv[p].user), cfg)
         /\ inv[p].res = "PAM_SUCCESS")
        => (\/ inv[p].tally.count <= cfg.free_tries
            \/ now >= UnlockInstantOf(inv[p].tally, cfg))

\* C3: a lock expires.  A PREAUTH invocation on a record with count >
\* free_tries whose unlock instant is <= now, and whose logging did not fail,
\* returns PAM_SUCCESS without sleeping, with countdown on or off.
C3_LockExpires ==
    \A p \in Procs :
        (/\ Done(p) /\ inv[p].hook = "auth" /\ inv[p].action = "PREAUTH"
         /\ inv[p].loaded /\ ~inv[p].logErr
         /\ IsLocked(inv[p].tally, cfg)
         /\ UnlockInstantOf(inv[p].tally, cfg) <= now
         /\ ~inv[p].slept)
        => inv[p].res = "PAM_SUCCESS"

\* C4: every AUTHFAIL invocation that completes without a tally error leaves
\* the stored record with the count it found plus one (no record counting as
\* 0), the instant of the failure and an unlock instant, whether or not the
\* record file existed before.
C4_AuthFailCounts ==
    \A p \in Procs :
        (Done(p) /\ inv[p].action = "AUTHFAIL" /\ inv[p].loaded)
        => /\ inv[p].tally.unlock # NoInstant
           /\ file[inv[p].user] = Rec(V(PreCount(inv[p]) + 1), V(inv[p].tally.instant),
                                      V(inv[p].tally.unlock))

\* C5: after an AUTHSUCC invocation on an existing record, the tally it
\* returns and the stored record have count 0 and no unlock instant, and the
\* decision is Unlocked.
C5_AuthSuccResets ==
    \A p \in Procs :
        (Done(p) /\ inv[p].action = "AUTHSUCC" /\ inv[p].loaded /\ inv[p].pre.kind = "rec")
        => /\ inv[p].tally.count = 0
           /\ inv[p].tally.unlock = NoInstant
           /\ file[inv[p].user].count = V(0)
           /\ file[inv[p].user].unlock = Missing
           /\ Unlocked(inv[p])

C5_Witness ==
    \E p \in Procs :
        /\ Done(p) /\ inv[p].action = "AUTHSUCC" /\ inv[p].loaded
        /\ inv[p].pre.kind = "rec" /\ inv[p].pre.count.t = "v" /\ inv[p].pre.count.v > 0
        /\ inv[p].pre.unlock.t = "v"

\* C6: a PREAUTH invocation on an existing record leaves the stored record as
\* it found it, whether it admits, denies or waits, and the tally it returns
\* has the stored count, instant and unlock instant.
C6_PreAuthReadsOnly ==
    \A p \in Procs :
        (inv[p].action = "PREAUTH" /\ inv[p].loaded /\ inv[p].pre.kind = "rec")
        => /\ file[inv[p].user] = inv[p].pre
           /\ inv[p].pre.count.t = "v" => inv[p].tally.count = inv[p].pre.count.v
           /\ inv[p].pre.instant.t = "v" => inv[p].tally.instant = inv[p].pre.instant.v
           /\ inv[p].pre.unlock.t = "v" => inv[p].tally.unlock = inv[p].pre.unlock.v
           /\ inv[p].pre.unlock.t = "none" => inv[p].tally.unlock = NoInstant

C6_Witness ==
    \E p \in Procs :
        /\ Done(p) /\ inv[p].action = "PREAUTH" /\ inv[p].loaded
        /\ inv[p].pre.kind = "rec" /\ inv[p].pre.count.t = "v" /\ inv[p].pre.count.v > 0
        /\ inv[p].slept

\* C7: when no record file exists, an invocation with any action creates the
\* directory and a record with count 0 and no unlock instant, returns the
\* zero tally, and the decision is Unlocked.
C7_CreatesZeroRecord ==
    \A p \in Procs :
        (Done(p) /\ inv[p].loaded /\ inv[p].pre.kind = "absent")
        => /\ dirExists
           /\ file[inv[p].user] = Rec(V(0), V(inv[p].tally.instant), Missing)
           /\ inv[p].tally.count = 0
           /\ inv[p].tally.unlock = NoInstant
           /\ Unlocked(inv[p])

C7_Witness ==
    \E p \in Procs :
        /\ Done(p) /\ inv[p].loaded /\ inv[p].pre.kind = "absent"
        /\ inv[p].action = "AUTHFAIL"

\* C8: with a count <= free_tries (after the increment, for AUTHFAIL) a
\* PREAUTH or AUTHFAIL invocation is Unlocked: it does not wait, sends no
\* message and is not denied.
C8_FreeTriesUnlocked ==
    \A p \in Procs :
        /\ (/\ Done(p) /\ inv[p].hook = "auth" /\ inv[p].loaded
            /\ inv[p].action \in {"PREAUTH", "AUTHFAIL"}
            /\ inv[p].tally.count <= cfg.free_tries)
           => Unlocked(inv[p])
        /\ inv[p].pc \in {"loop", "sleep"} => inv[p].tally.count > cfg.free_tries

C8_Witness ==
    \E p \in Procs :
        /\ Done(p) /\ inv[p].hook = "auth" /\ inv[p].loaded
        /\ inv[p].action = "AUTHFAIL" /\ inv[p].pre.kind = "rec"
        /\ inv[p].tally.count = cfg.free_tries /\ inv[p].tally.count > 0

\* C9: root exemption.  For uid 0 with even_deny_root = false every PREAUTH
\* and AUTHFAIL invocation is Unlocked, also on a locked record before its
\* unlock instant, while AUTHFAIL still increments the record and AUTHSUCC
\* resets it; with even_deny_root = true bounce_auth treats uid 0 as it
\* treats any other uid.
C9_RootExemption ==
    \A p \in Procs :
        /\ (/\ Done(p) /\ inv[p].hook = "auth" /\ inv[p].loaded
            /\ inv[p].action \in {"PREAUTH", "AUTHFAIL"}
            /\ Uid(inv[p].user) = RootUid /\ ~cfg.even_deny_root)
           => Unlocked(inv[p])
        /\ (/\ Done(p) /\ inv[p].loaded /\ inv[p].pre.kind = "rec"
            /\ Uid(inv[p].user) = RootUid)
           => /\ inv[p].action = "AUTHFAIL"
                 => file[inv[p].user].count = V(PreCount(inv[p]) + 1)
              /\ inv[p].action = "AUTHSUCC" => file[inv[p].user].count = V(0)
        /\ (inv[p].pc = "hook" /\ cfg.even_deny_root)
           => \A ci \in BOOLEAN, co \in BOOLEAN, l \in BOOLEAN, l2 \in BOOLEAN :
                 bounce_auth(build, cfg, RootUid, inv[p].tally, ci, co, l, l2)
                   = bounce_auth(build, cfg, Uid("alice"), inv[p].tally, ci, co, l, l2)

C9_Witness ==
    \E p \in Procs :
        /\ Done(p) /\ inv[p].hook = "auth" /\ inv[p].loaded
        /\ inv[p].action = "AUTHFAIL" /\ inv[p].pre.kind = "rec"
        /\ Uid(inv[p].user) = RootUid /\ ~cfg.even_deny_root
        /\ IsLocked(inv[p].tally, cfg) /\ now < inv[p].tally.unlock
        /\ inv[p].res = "PAM_SUCCESS"

\* C10: the record AUTHFAIL persists has unlock_instant - failure_instant
\* <= 24 hours, so no stored lockout lasts longer than 24 hours.
C10_DelayCapped ==
    /\ \A p \in Procs :
          (inv[p].action = "AUTHFAIL" /\ inv[p].pc \in {"write", "hook", "loop", "sleep", "done"}
           /\ ~inv[p].storeErr /\ inv[p].pre.kind = "rec")
          => inv[p].tally.unlock - inv[p].tally.instant <= Hours24
    /\ \A u \in Users :
          (file[u].kind = "rec" /\ file[u].unlock.t = "v" /\ file[u].instant.t = "v")
          => file[u].unlock.v - file[u].instant.v <= Hours24

C10_Witness ==
    \E p \in Procs :
        /\ Done(p) /\ inv[p].action = "AUTHFAIL" /\ inv[p].loaded /\ inv[p].pre.kind = "rec"
        /\ get_delay(inv[p].tally.count, cfg) > Hours24
        /\ file[inv[p].user].unlock = V(inv[p].tally.instant + Hours24)

\* C11: exactly free_tries failures are free.  Counted from the reset, the
\* creation or the last AUTHSUCC of a principal's record, at most free_tries
\* AUTHFAIL invocations of a principal that is not exempt root complete
\* Unlocked, and an AUTHFAIL invocation whose count exceeds free_tries is not
\* Unlocked.
C11_FreeTriesExact ==
    /\ \A u \in Users : ~RootExempt(Uid(u), cfg) => freeFails[u] <= cfg.free_tries
    /\ \A p \in Procs :
          (/\ Done(p) /\ inv[p].hook = "auth" /\ inv[p].action = "AUTHFAIL" /\ inv[p].loaded
           /\ ~RootExempt(Uid(inv[p].user), cfg)
           /\ inv[p].tally.count > cfg.free_tries)
          => ~Unlocked(inv[p])

\* the two processes are the only invocations of the behaviour, both are
\* AUTHFAIL on an existing record of one principal, and both have written
TwoAuthFails ==
    /\ started = 2
    /\ \A p \in Procs : /\ inv[p].action = "AUTHFAIL" /\ inv[p].loaded
                        /\ inv[p].pre.kind = "rec" /\ inv[p].user = "alice"

Malformed(content) ==
    /\ content.kind = "rec"
    /\ \/ content.count.t \in {"none", "bad"}
       \/ content.instant.t \in {"none", "bad"}
       \/ content.unlock.t = "bad"

\* C13: loading an existing record file whose content is malformed returns an
\* error: no invocation that read such a record gets past the load.
C13_MalformedIsError ==
    \A p \in Procs :
        (inv[p].pc \in {"write", "hook", "loop", "sleep", "done"} /\ Malformed(inv[p].pre))
        => inv[p].storeErr

\* the invocation has written the record of its principal: by AUTHFAIL, by
\* AUTHSUCC, or by creating it
Wrote(p) ==
    inv[p].loaded /\ (inv[p].action \in {"AUTHFAIL", "AUTHSUCC"} \/ inv[p].pre.kind = "absent")

\* C14: every record the program writes has unlock_instant present if and
\* only if its failure_count > free_tries.
C14_UnlockIffLocked ==
    \A p \in Procs :
        Wrote(p) =>
            (file[inv[p].user].unlock.t = "v" <=> inv[p].tally.count > cfg.free_tries)

\* C14 (amended): a record written by AUTHFAIL on an existing record has
\* unlock_instant present whatever its count, also when the count is
\* <= free_tries; a record written by creation or by AUTHSUCC has none.
C14_UnlockIffAuthFail ==
    \A p \in Procs :
        Wrote(p) =>
            (file[inv[p].user].unlock.t = "v"
               <=> (inv[p].action = "AUTHFAIL" /\ inv[p].pre.kind = "rec"))

C14_Witness ==
    \E p \in Procs :
        /\ Wrote(p) /\ inv[p].action = "AUTHFAIL" /\ inv[p].pre.kind = "rec"
        /\ inv[p].tally.count <= cfg.free_tries
        /\ file[inv[p].user].unlock = V(inv[p].tally.unlock)

C16_UnlockNotBeforeFailure ==
    \A p \in Procs :
        (inv[p].action = "AUTHFAIL" /\ inv[p].loaded /\ inv[p].pre.kind = "rec")
        => /\ file[inv[p].user].unlock.t = "v" /\ file[inv[p].user].instant.t = "v"
           /\ file[inv[p].user].unlock.v >= file[inv[p].user].instant.v

\* C17: round trip.  For every record the program writes (by creation, by
\* AUTHFAIL, by AUTHSUCC), what a following PREAUTH loads from the file has
\* the failure_count, failure_instant and unlock_instant of the in-memory
\* tally that was written.
C17_RoundTrip ==
    \A p \in Procs :
        Wrote(p) =>
            LET r == load_tally_from_file(build, file[inv[p].user], TRUE)
            IN  r.ok /\ update_tally_from_section(r.tally, "PREAUTH", cfg, now) = inv[p].tally

\* a completed bounce of a locked, non-exempt principal with countdown disabled
NoCountdownBounce(p) ==
    /\ build = "src" /\ ~cfg.countdown
    /\ Done(p) /\ inv[p].hook = "auth" /\ inv[p].action \in {"PREAUTH", "AUTHFAIL"}
    /\ inv[p].loaded
    /\ IsLocked(inv[p].tally, cfg) /\ ~RootExempt(Uid(inv[p].user), cfg)

LoopExitAdmits(p) ==
    /\ inv[p].pc = "loop" /\ Done(p)'
    /\ inv[p].slept
    /\ inv'[p].res = "PAM_SUCCESS"

\* C19: when the wait loop exits and the invocation admits, now is not before
\* the unlock instant of the persisted record as it stands at that moment,
\* also when other invocations ran during the wait; and the waiter leaves the
\* record alone between entering the loop and leaving it.
C19_AdmitAfterPersistedUnlock ==
    [][\A p \in Procs :
          /\ LoopExitAdmits(p)
             => /\ file[inv[p].user].kind = "rec"
                /\ file[inv[p].user].unlock.t = "v"
                   => now >= file[inv[p].user].unlock.v
          /\ (inv[p].pc \in {"loop", "sleep"} /\ inv'[p] # inv[p]) => file' = file]_vars

Tokens(args) == {i \in DOMAIN args : args[i] \in {"preauth", "authfail", "authsucc"}}

\* C21: the first module argument equal to "preauth", "authfail" or
\* "authsucc" selects PREAUTH, AUTHFAIL or AUTHSUCC; with no such argument
\* (none, or only unrecognised ones) the action is AUTHSUCC and the
\* invocation leaves the principal's record with count 0.
C21_ActionMapping ==
    \A p \in Procs :
        inv[p].pc # "idle"
        => /\ inv[p].action =
                IF Tokens(inv[p].args) = {} THEN "AUTHSUCC"
                ELSE LET first == CHOOSE i \in Tokens(inv[p].args) :
                                     \A j \in Tokens(inv[p].args) : i <= j
                     IN  CASE inv[p].args[first] = "preauth"  -> "PREAUTH"
                           [] inv[p].args[first] = "authfail" -> "AUTHFAIL"
                           [] inv[p].args[first] = "authsucc" -> "AUTHSUCC"
           /\ (Tokens(inv[p].args) = {} /\ Done(p) /\ inv[p].loaded)
              => /\ file[inv[p].user].kind = "rec"
                 /\ file[inv[p].user].count = V(0)

C21_Witness ==
    \E p \in Procs :
        /\ Done(p) /\ inv[p].loaded /\ PreCount(inv[p]) > 0
        /\ Len(inv[p].args) = MaxArgs /\ Tokens(inv[p].args) = {}
        /\ inv[p].action = "AUTHSUCC"
        /\ file[inv[p].user].count = V(0)

\* C22: when the principal does not resolve to a user the invocation ends
\* before the tally store is reached (nothing is read, created or written)
\* and the hook does not return PAM_SUCCESS.
C22_UnknownUserDenied ==
    \A p \in Procs :
        (inv[p].pc # "idle" /\ inv[p].user \notin Users)
        => /\ Done(p) /\ ~inv[p].loaded /\ ~inv[p].storeErr /\ inv[p].pre = Absent
           /\ inv[p].res # "PAM_SUCCESS"

\* a step of the reset command (no invocation is running before or after it,
\* and the clock stands still)
ResetStep == Quiet /\ Quiet' /\ now' = now /\ lastReset'.res # "none"

\* C23: reset(principal) returns deleted when the tally file existed and was
\* removed, not_found when there was none, and error otherwise (the file is
\* then left as it was); after deleted the file is gone, and the next PreAuth
\* for that principal creates a zero record and is Unlocked, whatever the
\* count was before.
C23_Reset ==
    [][/\ ResetStep
          => LET u == lastReset'.user
             IN  /\ lastReset'.res = "deleted"
                    <=> (file[u].kind # "absent" /\ file'[u] = Absent)
                 /\ lastReset'.res = "not_found" <=> file[u].kind = "absent"
                 /\ lastReset'.res = "error" <=> (file[u].kind # "absent" /\ file'[u] = file[u])
                 /\ \A v \in Users \ {u} : file'[v] = file[v]
       /\ \A p \in Procs :
             (/\ Done(p)' /\ lastReset'.res = "deleted" /\ inv'[p].user = lastReset'.user
              /\ inv'[p].hook = "auth" /\ inv'[p].action = "PREAUTH" /\ inv'[p].loaded)
             => /\ inv'[p].pre = Absent
                /\ file'[inv'[p].user] = Rec(V(0), V(inv'[p].tally.instant), Missing)
                /\ Unlocked(inv'[p])]_vars

C23_Witness ==
    \E p \in Procs :
        /\ Done(p) /\ inv[p].hook = "auth" /\ inv[p].action = "PREAUTH" /\ inv[p].loaded
        /\ lastReset = [user |-> inv[p].user, res |-> "deleted", locked |-> TRUE]
        /\ file[inv[p].user].count = V(0)
        /\ Unlocked(inv[p])

\* C24: no hook invocation, whether it succeeds or fails, deletes a
\* principal's record file: a file that exists keeps existing under every
\* step but the administrator's reset.
C24_HooksNeverDelete ==
    [][\A u \in Users :
          (file[u].kind # "absent" /\ file'[u].kind = "absent")
          => /\ ResetStep
             /\ lastReset' = [user |-> u, res |-> "deleted",
                              locked |-> StoredCount(u) > cfg.free_tries]
             /\ inv' = inv]_vars

C24_Witness ==
    \E p \in Procs :
        /\ Done(p) /\ inv[p].storeErr /\ inv[p].action # "PREAUTH"
        /\ inv[p].pre.kind = "rec"
        /\ file[inv[p].user] = inv[p].pre
        /\ lastReset.res = "error"

\* C25: sequential logins through the configured stack, starting from no
\* record: after n consecutive failed logins (PreAuth then AuthFail) the
\* persisted count is n, and after a successful login (PreAuth then the
\* account hook) it is 0.
C25_LoginsCounted ==
    (login.on /\ Quiet /\ login.step = "preauth")
    => \A u \in focus :
          IF file[u].kind = "absent" THEN login.failed = 0
          ELSE file[u].kind = "rec" /\ file[u].count = V(login.failed)

C25_Witness ==
    /\ login.on /\ Quiet /\ login.step = "preauth"
    /\ login.failed = MaxCount
    /\ file["alice"].count = V(MaxCount)

C25_WitnessCleared ==
    /\ login.on /\ Quiet /\ login.step = "preauth"
    /\ login.failed = 0
    /\ file["alice"].count = V(0) /\ file["alice"].instant.t = "none"

\* what the configuration file holds for an option of the declared type, or
\* the default when the option is absent or of another type
Declared(c, option, type, default) ==
    IF c.kind = "table" /\ c[option].t = type THEN c[option].v ELSE default

\* C26: every recognised option that is present with a value of its declared
\* type (free_tries int, base_delay_seconds int, ramp_multiplier int,
\* even_deny_root bool) takes that value; an option that is absent or not of
\* that type takes its default (6, 30, 50, false) independently of the
\* others; a missing or unparsable file gives all defaults.
C26_LoadFile ==
    /\ cfg.free_tries = Declared(conf, "free_tries", "int", 6)
    /\ cfg.base_delay_seconds = Declared(conf, "base_delay_seconds", "int", 30)
    /\ cfg.ramp_multiplier = Declared(conf, "ramp_multiplier", "int", 50)
    /\ cfg.even_deny_root = (Declared(conf, "even_deny_root", "bool", 0) = 1)

\* C27: when failure_count - free_tries = 1, get_delay is base_delay_seconds
\* for every ramp_multiplier, so the AuthFail that first exceeds free_tries
\* persists unlock_instant = failure_instant + min(base_delay_seconds, 24 h).
C27_FirstLockIsBase ==
    /\ \A c \in RampConfigs \cup Configs :
          get_delay(c.free_tries + 1, c) = c.base_delay_seconds * 1000
    /\ \A p \in Procs :
          (/\ Wrote(p) /\ inv[p].action = "AUTHFAIL" /\ inv[p].pre.kind = "rec"
           /\ inv[p].tally.count - cfg.free_tries = 1)
          => /\ file[inv[p].user].instant = V(inv[p].tally.instant)
             /\ file[inv[p].user].unlock =
                   V(inv[p].tally.instant + Min(cfg.base_delay_seconds * 1000, Hours24))

C27_Witness ==
    \E p \in Procs :
        /\ Wrote(p) /\ inv[p].action = "AUTHFAIL" /\ inv[p].pre.kind = "rec"
        /\ inv[p].tally.count = cfg.free_tries + 1
        /\ cfg.ramp_multiplier < 0 /\ cfg.base_delay_seconds > 0
        /\ file[inv[p].user].unlock = V(now + cfg.base_delay_seconds * 1000)

\* the failure counts above free_tries that the model computes delays for
LockedCounts == (cfg.free_tries + 1)..(cfg.free_tries + MaxCount + 1)

\* C28: for every failure_count > free_tries and every allowed configuration
\* (free_tries >= 0, base_delay_seconds >= 0, any ramp_multiplier),
\* get_delay(failure_count) >= base_delay_seconds and get_delay is strictly
\* increasing in failure_count.
C28_DelayMonotone ==
    \A count \in LockedCounts :
        /\ get_delay(count, cfg) >= cfg.base_delay_seconds * 1000
        /\ get_delay(count + 1, cfg) > get_delay(count, cfg)

\* the invocation has run the AUTHFAIL arm of update_tally_from_section, which
\* evaluates get_delay on the incremented count
AuthFailArmRan(p) ==
    /\ inv[p].action = "AUTHFAIL"
    /\ inv[p].pc \in {"write", "hook", "loop", "sleep", "done"}
    /\ inv[p].tally.unlock # NoInstant

\* C29: get_delay is only ever evaluated with failure_count > free_tries, at
\* both call sites (the AUTHFAIL transition and bounce_auth), so the
\* logarithm never gets an argument <= 0.
C29_DelayGuarded ==
    \A p \in Procs :
        /\ AuthFailArmRan(p) => inv[p].tally.count > cfg.free_tries
        /\ (inv[p].bounced /\ inv[p].unlockAt # NoInstant)
           => inv[p].tally.count > cfg.free_tries

\* C30: the unlock instant that bounce_auth enforces is never later than
\* failure_instant + 24 h, both when it is the stored unlock_instant and when
\* the record has failure_count > free_tries and no unlock_instant, so that
\* the instant is failure_instant + get_delay; hence no invocation waits in
\* the loop for more than 24 h.
C30_BounceWithin24h ==
    \A p \in Procs :
        (/\ inv[p].bounced /\ inv[p].unlockAt # NoInstant
         /\ inv[p].pre.kind = "rec" /\ ~Malformed(inv[p].pre))
        => /\ inv[p].unlockAt <= inv[p].tally.instant + Hours24
           /\ inv[p].pc \in {"loop", "sleep"} => inv[p].unlockAt - now <= Hours24

\* the step sends a lockout or countdown message of invocation p, or takes p
\* into the wait
SpeaksOrBlocks(p) ==
    \/ inv'[p].msgs > inv[p].msgs
    \/ ~inv[p].bounced /\ inv'[p].bounced
    \/ inv[p].pc \notin {"loop", "sleep"} /\ inv'[p].pc \in {"loop", "sleep"}

\* C31: within one invocation the steps are ordered load, decide, persist,
\* wait: an AuthFail or AuthSuccess invocation has completed the write of its
\* record before the step that sends its first message or starts its wait,
\* and that step leaves the file alone; an invocation that starts while the
\* first one waits finds the record the waiting invocation wrote (count,
\* failure_instant and unlock_instant).
C31_PersistBeforeWait ==
    [][\A p \in Procs :
          /\ (inv[p].action \in {"AUTHFAIL", "AUTHSUCC"} /\ SpeaksOrBlocks(p))
             => inv[p].loaded /\ file' = file
          /\ \A q \in Procs \ {p} :
                (/\ started = 1 /\ inv[p].action = "AUTHFAIL"
                 /\ inv[p].pc \in {"loop", "sleep"}
                 /\ inv[q].pc = "idle" /\ inv'[q].pc # "idle")
                => inv'[q].pre = Rec(V(inv[p].tally.count), V(inv[p].tally.instant),
                                     V(inv[p].tally.unlock))]_vars

\* an AuthFail invocation waits after its write, and a second invocation has
\* started meanwhile and found the written record
C31_Witness ==
    \E p \in Procs, q \in Procs :
        /\ p # q /\ started = 2
        /\ inv[p].action = "AUTHFAIL" /\ inv[p].pc = "sleep" /\ inv[p].loaded
        /\ inv[p].msgs > 0
        /\ inv[q].pc = "load"
        /\ inv[q].pre = Rec(V(inv[p].tally.count), V(inv[p].tally.instant),
                            V(inv[p].tally.unlock))
        /\ inv[p].tally.count = PreCount(inv[p]) + 1

\* C32: every invocation terminates.  With a clock that keeps advancing, an
\* invocation that has started returns a result, whether or not the
\* conversation works, and one in the wait loop whose unlock instant has
\* passed returns; a sleep is only ever started before the unlock instant,
\* and an invocation whose count is not above free_tries never sleeps.
C32_Terminates ==
    /\ \A p \in Procs : (inv[p].pc # "idle") ~> Done(p)
    /\ \A p \in Procs :
          (inv[p].pc \in {"loop", "sleep"} /\ now >= inv[p].unlockAt) ~> Done(p)
    /\ [](\A p \in Procs :
            /\ inv[p].pc = "sleep" => inv[p].wake - SleepMs < inv[p].unlockAt
            /\ (inv[p].slept \/ inv[p].pc \in {"loop", "sleep"})
               => inv[p].tally.count > cfg.free_tries)

\* a locked invocation has waited through a failing conversation until its
\* unlock instant and has returned
C32_Witness ==
    \E p \in Procs :
        /\ Done(p) /\ inv[p].slept /\ inv[p].convErr
        /\ now >= inv[p].unlockAt
        /\ inv[p].res = "PAM_SUCCESS"

\* the persisted record of u is cleared: failure_count = 0, no unlock_instant
Cleared(u) == file[u].kind = "rec" /\ file[u].count = V(0) /\ file[u].unlock = Missing

\* C33: a successful authentication clears the lockout for good.  While an
\* AuthSuccess invocation has completed and left the record cleared, and the
\* only other invocation is an AuthFail that had loaded the record before
\* that (so it had started earlier), every step leaves the persisted record
\* with failure_count = 0 and without unlock_instant.
C33_SuccessClearsForGood ==
    [][\A p \in Procs, q \in Procs :
          (/\ Done(q) /\ inv[q].action = "AUTHSUCC" /\ inv[q].loaded
           /\ Cleared(inv[q].user)
           /\ inv[p].user = inv[q].user /\ inv[p].action = "AUTHFAIL"
           /\ inv[p].pc = "write" /\ PreCount(inv[p]) > 0)
          => Cleared(inv[q].user)']_vars

\* C34: record creation never destroys recorded failures.  The step in which
\* an invocation that had found no record file writes the zero record does
\* not replace a record written in the meantime: it never lowers the
\* persisted failure_count.
C34_CreationKeepsFailures ==
    [][\A p \in Procs :
          (inv[p].pc = "create" /\ inv'[p].pc # "create")
          => FieldOr(file'[inv[p].user].count, 0) >= FieldOr(file[inv[p].user].count, 0)]_vars

\* C35: with PreAuth and AuthFail invocations only, sequential or
\* interleaved, no step lowers the persisted failure_count or removes the
\* persisted unlock_instant: not a write, and not the passing of time.
C35_CountMonotone ==
    [][\A u \in Users :
          /\ FieldOr(file'[u].count, 0) >= FieldOr(file[u].count, 0)
          /\ file[u].unlock.t = "v" => file'[u].unlock.t = "v"]_vars

\* C36: principal isolation.  A step changes the record of principal b only
\* when it is the write or the creation of an invocation for b, or a reset
\* of b that deleted it; and what an invocation has read from the store, on
\* which its decision rests, is the content of its own principal's file.
C36_PrincipalIsolation ==
    [][\A b \in Users :
          /\ file'[b] # file[b]
             => \/ \E p \in Procs : /\ inv'[p] # inv[p] /\ inv[p].user = b
                                    /\ inv[p].pc \in {"write", "create"}
                \/ inv' = inv /\ lastReset'.user = b /\ lastReset'.res = "deleted"
          /\ \A p \in Procs :
                (inv'[p].user = b /\ inv'[p].pre # inv[p].pre)
                => inv'[p].pre = file[b]]_vars

\* an AuthFail invocation for alice has written alice's record while root
\* has a record of its own, which differs
C36_Witness ==
    \E p \in Procs :
        /\ inv[p].user = "alice" /\ inv[p].action = "AUTHFAIL"
        /\ inv[p].pc = "hook" /\ inv[p].loaded
        /\ file["alice"].count = V(PreCount(inv[p]) + 1)
        /\ file["root"].kind = "rec" /\ file["root"] # file["alice"]

\* C37: failure_count is non-negative and never wraps.  Every persisted
\* count is >= 0, and an AuthFail invocation that found a count above
\* free_tries, the largest i32 included, leaves a count above free_tries: the
\* principal stays locked.
C37_CountNeverWraps ==
    /\ \A u \in Users : file[u].count.t = "v" => file[u].count.v >= 0
    /\ \A p \in Procs :
          (/\ inv[p].action = "AUTHFAIL" /\ inv[p].loaded /\ inv[p].pc \in {"hook", "done"}
           /\ PreCount(inv[p]) > cfg.free_tries)
          => /\ inv[p].tally.count > cfg.free_tries
             /\ file[inv[p].user].count.v > cfg.free_tries

\* the text the description gives for h hours, m minutes and sec seconds
Described(h, m, sec) ==
    (IF h = 0 THEN "" ELSE IF h = 1 THEN "1 hour, " ELSE ToString(h) \o " hours, ")
      \o (IF m = 0 THEN "" ELSE IF m = 1 THEN "1 minute and " ELSE ToString(m) \o " minutes and ")
      \o (IF sec = 1 THEN "1 second" ELSE ToString(sec) \o " seconds")

FirstIteration(p) ==
    /\ inv[p].pc = "loop" /\ ~inv[p].slept /\ inv[p].msgs = 0
    /\ now < inv[p].unlockAt
    /\ inv'[p] # inv[p]

\* C38: with countdown enabled, the first iteration of the wait loop sends a
\* countdown message that reports the time remaining at that moment; on the
\* AuthFail that first exceeds free_tries with base_delay_seconds = 30 (the
\* loop is entered less than a second after the failure) that message
\* begins "Account locked! Unlocking in 29".
C38_FirstCountdownMessage ==
    [][\A p \in Procs :
          (FirstIteration(p) /\ cfg.countdown)
          => /\ inv'[p].msgs = 1
             /\ inv'[p].text = CountdownMessage(build, Min(inv[p].unlockAt - now, Hours24))
             /\ (/\ inv[p].action = "AUTHFAIL"
                 /\ inv[p].tally.count = cfg.free_tries + 1
                 /\ cfg.base_delay_seconds = 30
                 /\ now - inv[p].tally.instant \in 1..(SleepMs - 1))
                => SubSeq(inv'[p].text, 1, 31) = "Account locked! Unlocking in 29"]_vars

====
